---- MODULE Spec2Model ----
(***************************************************************************)
(* A model of pyBPL: the bottom-up random walker, the rendering pipeline,  *)
(* the motor conversion of stroke tokens and the spatial model.            *)
(*                                                                         *)
(* Each component has its own specification (SpecWalk, ...); the variables *)
(* of the other components keep their initial value under it.              *)
(***************************************************************************)
EXTENDS Integers, Sequences, FiniteSets, TLC

VARIABLES
    \* ---- RandomWalker (random_walker.py) ----
    graph_edges,   \* the edges of self.graph, each a set {u, v} of two nodes
    visited,       \* the 'visited' attribute of every edge of self.graph
    list_ws,       \* self.list_ws: the WalkerStrokes of the current walk
    exp_wt_start,  \* self.exp_wt_start: <<>> until set, then <<value>>
    lmbda,         \* self.lmbda: <<>> until set, then <<value>>
    max_len,       \* self.ps.max_len
    wpc,           \* the walker's position in sample/det_walk/make
    caller,        \* which of sample / det_walk called make
    myns,          \* sample's local myns: <<>> is float('inf'), <<n>> is n
    walk,          \* the local walk of sample / det_walk: the last make's result
    nmake,         \* number of make() calls of the current sample()/det_walk()
    angles,        \* pen_angle_step's local angles, <<>> outside its last step
    rindx,         \* pen_angle_step's local rindx as <<r>>, <<>> if not drawn
    \* ---- rendering (rendering.py) ----
    ps,            \* the Parameters object
    strokes,       \* render_image's argument strokes: a list of (n,2) trajectories
    epsilon,       \* render_image's argument epsilon
    blur_sigma,    \* render_image's argument blur_sigma
    pimg,          \* render_image's local pimg: the (H,W) image
    ink_off_page,  \* render_image's local ink_off_page
    si,            \* number of strokes render_image's for loop has drawn
    myink,         \* add_stroke's local myink at its assertion (<<>> if not reached)
    fi,            \* broaden_and_blur's count of filterings done
    brush_scale,    \* broaden_and_blur's local h_scale: <<>> until set
    rpc,           \* render_image's position
    \* ---- a call of check_bounds ----
    b_myt,         \* the point myt
    b_imsize,      \* the image size imsize = <<H, W>>
    b_out,         \* <<>> before the call, <<out>> after it
    \* ---- vanilla_to_motor and StrokeToken (objects/part.py) ----
    shapes,        \* the (ncpt, 2, nsub) tensor shapes
    invscales,     \* the (nsub,) tensor invscales
    position,      \* first_pos / StrokeToken.position; <<>> is None
    neval,         \* the argument neval
    m_ret,         \* the last call and what it returned or raised
    \* ---- SpatialModel (classes/spatial_model.py) ----
    data_start,    \* the constructor's argument data_start: a list of positions
    data_id,       \* the constructor's argument data_id: a list of stroke indices
    clump_id,      \* the constructor's argument clump_id
    list_SH,       \* self.list_SH
    sm_pc,         \* the constructor's position
    \* ---- a call of the scale model (CPD/cpd_scale.py) ----
    lib,           \* the Library: its flag isunif and the shape of scale['theta']
    subid,         \* the tensor subid: its shape and its ids
    cpd_invscales, \* the shape of the tensor invscales of score_invscale_type
    cpd_ret,       \* the call made and what it returned or raised
    \* ---- PartType.train/eval, PartToken.train/eval (part.py) ----
    parts,         \* a StrokeType (.type) and a StrokeToken (.token)
    self,          \* the part train() or eval() runs on: "type", "token"
    grad,          \* the argument of requires_grad_ in the running toggle
    param_i,       \* number of entries of parameters() the loop has passed
    tpc            \* "unused", "idle", "loop", "returned" or "raised"

walkVars == <<graph_edges, visited, list_ws, exp_wt_start, lmbda, max_len,
              wpc, caller, myns, walk, nmake, angles, rindx>>

boundsVars == <<b_myt, b_imsize, b_out>>

motorVars == <<shapes, invscales, position, neval, m_ret>>

spatialVars == <<data_start, data_id, clump_id, list_SH, sm_pc>>

cpdVars == <<lib, subid, cpd_invscales, cpd_ret>>

partVars == <<parts, self, grad, param_i, tpc>>

renderVars == <<ps, strokes, epsilon, blur_sigma, pimg, ink_off_page, si,
                myink, fi, brush_scale, rpc>>

vars == <<graph_edges, visited, list_ws, exp_wt_start, lmbda, max_len,
          wpc, caller, myns, walk, nmake, angles, rindx,
          ps, strokes, epsilon, blur_sigma, pimg, ink_off_page, si, myink, fi,
          brush_scale, rpc, b_myt, b_imsize, b_out,
          shapes, invscales, position, neval, m_ret,
          data_start, data_id, clump_id, list_SH, sm_pc,
          lib, subid, cpd_invscales, cpd_ret,
          parts, self, grad, param_i, tpc>>

----------------------------------------------------------------------------
(* Bounds of the model *)

\* most edges of the skeleton graphs (on the three nodes of Nodes)
MaxEdges == 2
\* most edge traversals of one make() once every further move is a retrace
MaxMoves == 4
\* ps.max_len ranges over 1..MaxLenBound
MaxLenBound == 2
\* most make() calls counted in one sample()
MaxMakes == 2

Nodes == {1, 2, 3}
AllEdges == {e \in SUBSET Nodes : Cardinality(e) = 2}
\* candidate values of ps.int_exp_wt and ps.int_lambda_soft
IntExpWt == {1, 2}
IntLambdaSoft == {1, 2}

----------------------------------------------------------------------------
(* Walker base class and WalkerStroke *)

RECURSIVE SumSeq(_)
SumSeq(s) == IF s = <<>> THEN 0 ELSE Head(s) + SumSeq(Tail(s))

\* WalkerStroke(start_ni)
WalkerStroke(ni) == [list_ni |-> <<ni>>, list_ei |-> <<>>]

\* WalkerStroke.move(next_ni, next_ei)
StrokeMove(stroke, ei) ==
    [list_ni |-> Append(stroke.list_ni, ei[2]),
     list_ei |-> Append(stroke.list_ei, ei)]

\* Walker.curr_ni: the last node of the last stroke
curr_ni(ws) == LET s == ws[Len(ws)] IN s.list_ni[Len(s.list_ni)]

\* Walker.complete: every edge of the graph is visited
complete(vis) == \A e \in DOMAIN vis : vis[e]

\* Walker.is_visited(edge)
is_visited(vis, ei) == vis[{ei[1], ei[2]}]

\* graph.degree(ni)
degree(edges, ni) == Cardinality({e \in edges : ni \in e})

\* graph.degree(ni, weight='visited')
visited_degree(vis, ni) == Cardinality({e \in DOMAIN vis : ni \in e /\ vis[e]})

\* Walker.clear(): no strokes, every edge unvisited
clear_visited(edges) == [e \in edges |-> FALSE]

\* the nodes of a set in the order graph.nodes() yields them (ascending)
RECURSIVE NodeSeq(_)
NodeSeq(S) ==
    IF S = {} THEN <<>>
    ELSE LET m == CHOOSE x \in S : \A y \in S : x <= y
         IN <<m>> \o NodeSeq(S \ {m})

\* Walker.add_singletons(): one stroke for every node of degree 0
add_singletons(edges) ==
    LET iso == NodeSeq({ni \in Nodes : degree(edges, ni) = 0})
    IN [i \in 1..Len(iso) |-> WalkerStroke(iso[i])]

\* Walker.get_moves(): the edges at the current node, as (curr_ni, next_ni)
get_moves(edges, ws) ==
    LET c == curr_ni(ws)
    IN {<<c, n>> : n \in {n \in Nodes : {c, n} \in edges}}

\* Walker.get_new_moves(): the moves on edges not visited yet
get_new_moves(edges, vis, ws) ==
    {ei \in get_moves(edges, ws) : ~is_visited(vis, ei)}

\* Walker.select_move(next_ei), the strokes after it
select_move_ws(ws, ei) == [ws EXCEPT ![Len(ws)] = StrokeMove(ws[Len(ws)], ei)]

\* Walker.select_move(next_ei), the visited attributes after it
select_move_vis(vis, ei) == [vis EXCEPT ![{ei[1], ei[2]}] = TRUE]

\* Walker.S: one entry per WalkerStroke, in order
WalkerS(ws) == ws

\* number of edge traversals of the walk so far
TotalMoves(ws) == SumSeq([i \in 1..Len(ws) |-> Len(ws[i].list_ei)])

----------------------------------------------------------------------------
(* RandomWalker *)

\* available nodes that count the visited edges as well
available_nodes_any(edges, vis) == {ni \in Nodes : degree(edges, ni) > 0}

\* RandomWalker._available_nodes: nodes with unvisited degree > 0
available_nodes(edges, vis) ==
    {ni \in Nodes : degree(edges, ni) - visited_degree(vis, ni) > 0}

\* pen_angle_step, line 91: get_moves() as a list, in the order of the
\* neighbours (ascending)
moves_list(edges, ws) ==
    LET c == curr_ni(ws)
        nbrs == NodeSeq({n \in Nodes : <<c, n>> \in get_moves(edges, ws)})
    IN [i \in 1..Len(nbrs) |-> <<c, nbrs[i]>>]

\* RandomWalker._angle_for_move(next_ei): the angle between the stroke so
\* far and its continuation along next_ei, a number the geometry decides
angle_for_move(ws, next_ei) == <<"angle", ws[Len(ws)].list_ni, next_ei>>

\* angles without the entry of the pen lift
angle_costs_nolift(list_ei, vis, ws) ==
    [i \in 1..Len(list_ei) |->
        IF is_visited(vis, list_ei[i]) THEN "faux_angle_repeat"
        ELSE angle_for_move(ws, list_ei[i])]

\* pen_angle_step, lines 100-110: the angles of the move options and of the
\* pen lift; the two constants of ps stand for their values
angle_costs(list_ei, vis, ws) ==
    [i \in 1..(Len(list_ei) + 1) |->
        IF i = Len(list_ei) + 1 THEN "faux_angle_lift"
        ELSE IF is_visited(vis, list_ei[i]) THEN "faux_angle_repeat"
        ELSE angle_for_move(ws, list_ei[i])]

\* the value det_walk() gives exp_wt_start and lmbda
DetParam == 1000

\* the unvisited degree of node ni
unvisited_degree(edges, vis, ni) == degree(edges, ni) - visited_degree(vis, ni)

\* pen_up_down, lines 77-81: the nodes np.random.choice can return, those of
\* positive weight.  The weights are proportional to degree ^ (-w), in
\* float32: with w = 1000 the weight of every node above the least unvisited
\* degree underflows to 0 (for degrees below 10), with the small w of
\* sample() every weight is positive.
pen_down_nodes(edges, vis, w) ==
    LET avail == available_nodes(edges, vis)
    IN IF w < DetParam THEN avail
       ELSE {ni \in avail : \A nj \in avail :
                unvisited_degree(edges, vis, ni)
                    <= unvisited_degree(edges, vis, nj)}

\* a sample() whose loop test is reversed
sample_again_rev(ns, ml) == ns = <<>> \/ (ns # <<>> /\ ns[1] < ml)

\* the while condition of sample(): myns > self.ps.max_len
sample_again(ns, ml) == ns = <<>> \/ (ns # <<>> /\ ns[1] > ml)

\* a make() whose loop never sees the walk complete
make_continue_always(vis) == vis = vis

\* a make() that stops as soon as some edge is visited
make_continue_any(vis) == \A e \in DOMAIN vis : ~vis[e]

\* the while condition of make(): not self.complete
make_continue(vis) == ~complete(vis)

WalkInit ==
    /\ graph_edges \in {g \in SUBSET AllEdges : Cardinality(g) <= MaxEdges}
    /\ visited = clear_visited(graph_edges)
    /\ list_ws = <<>>
    /\ exp_wt_start = <<>>
    /\ lmbda = <<>>
    /\ max_len \in 1..MaxLenBound
    /\ wpc = "idle"
    /\ caller = "none"
    /\ myns = <<>>
    /\ walk = <<>>
    /\ nmake = 0
    /\ angles = <<>>
    /\ rindx = <<>>

\* sample(), up to the head of its rejection loop
Sample ==
    /\ wpc \in {"idle", "returned"}
    /\ \E w \in IntExpWt : exp_wt_start' = <<w>>
    /\ \E l \in IntLambdaSoft : lmbda' = <<l>>
    /\ myns' = <<>>
    /\ caller' = "sample"
    /\ wpc' = "loop"
    /\ nmake' = 0
    /\ walk' = <<>>
    /\ UNCHANGED <<graph_edges, visited, list_ws, max_len>>
    /\ angles' = <<>>
    /\ rindx' = <<>>

\* make(), up to its while loop: clear(), add_singletons(), and the call
\* of pen_up_down() when the walk is not complete.  The locals walk and myns
\* of sample() are dead from the loop test until make() returns (both are
\* assigned before they are read again), and are blanked here.
MakeBegin ==
    /\ wpc = "loop"
    /\ caller = "sample"
    /\ sample_again(myns, max_len)
    /\ exp_wt_start # <<>> /\ lmbda # <<>>
    /\ visited' = clear_visited(graph_edges)
    /\ list_ws' = add_singletons(graph_edges)
    /\ wpc' = IF make_continue(visited') THEN "pen_up_down" ELSE "while"
    /\ nmake' = IF nmake < MaxMakes THEN nmake + 1 ELSE nmake
    /\ walk' = <<>>
    /\ myns' = <<>>
    /\ UNCHANGED <<graph_edges, exp_wt_start, lmbda, max_len, caller>>
    /\ angles' = <<>>
    /\ rindx' = <<>>

\* pen_up_down(): a new stroke at a node with an unvisited edge
PenUpDown ==
    /\ wpc = "pen_up_down"
    /\ IF available_nodes(graph_edges, visited) = {}
       THEN /\ wpc' = "error"
            /\ UNCHANGED list_ws
       ELSE \E ni \in pen_down_nodes(graph_edges, visited, exp_wt_start[1]) :
              /\ list_ws' = Append(list_ws, WalkerStroke(ni))
              /\ wpc' = IF ~complete(visited) THEN "pen_simple_step" ELSE "while"
    /\ UNCHANGED <<graph_edges, visited, exp_wt_start, lmbda, max_len, caller,
                   myns, walk, nmake>>
    /\ angles' = <<>>
    /\ rindx' = <<>>

\* pen_simple_step(): a first move of the new stroke, on a new edge
PenSimpleStep ==
    /\ wpc = "pen_simple_step"
    /\ LET list_ei == get_new_moves(graph_edges, visited, list_ws)
       IN IF list_ei = {}
          THEN /\ wpc' = "pen_up_down"
               /\ UNCHANGED <<list_ws, visited>>
          ELSE \E next_ei \in list_ei :
                 /\ list_ws' = select_move_ws(list_ws, next_ei)
                 /\ visited' = select_move_vis(visited, next_ei)
                 /\ wpc' = "while"
    /\ UNCHANGED <<graph_edges, exp_wt_start, lmbda, max_len, caller, myns,
                   walk, nmake>>
    /\ angles' = <<>>
    /\ rindx' = <<>>

\* pen_angle_step(): one iteration of make()'s while loop.  A retrace is
\* drawn only while the walk has fewer than MaxMoves traversals.
PenAngleStep ==
    /\ wpc = "while"
    /\ make_continue(visited)
    /\ LET list_ei == moves_list(graph_edges, list_ws)
           num_moves == Len(list_ei)
       IN IF num_moves = 0
          THEN /\ wpc' = "pen_up_down"
               /\ angles' = <<>>
               /\ rindx' = <<>>
               /\ UNCHANGED <<list_ws, visited>>
          ELSE /\ angles' = angle_costs(list_ei, visited, list_ws)
               /\ \E r \in 0..num_moves :
                    /\ rindx' = <<r>>
                    /\ IF r = num_moves
                       THEN /\ wpc' = "pen_up_down"
                            /\ UNCHANGED <<list_ws, visited>>
                       ELSE /\ is_visited(visited, list_ei[r + 1])
                                 => TotalMoves(list_ws) < MaxMoves
                            /\ list_ws' = select_move_ws(list_ws, list_ei[r + 1])
                            /\ visited' = select_move_vis(visited,
                                                          list_ei[r + 1])
                            /\ wpc' = "while"
    /\ UNCHANGED <<graph_edges, exp_wt_start, lmbda, max_len, caller, myns,
                   walk, nmake>>

\* Walker.select_move(next_ei) for walks of any length: the strokes keep
\* the first MaxMoves traversals in full, and of the retraces after them only
\* the latest, which overwrites the end of the last stroke.  curr_ni and the
\* visited attributes, which decide every later step, are exact.
select_move_folded(ws, vis, ei) ==
    IF is_visited(vis, ei) /\ TotalMoves(ws) >= MaxMoves
    THEN LET s == ws[Len(ws)]
         IN [ws EXCEPT ![Len(ws)] =
                [list_ni |-> [s.list_ni EXCEPT ![Len(s.list_ni)] = ei[2]],
                 list_ei |-> [s.list_ei EXCEPT ![Len(s.list_ei)] = ei]]]
    ELSE select_move_ws(ws, ei)

\* pen_angle_step() with option r of list_ei, r = Len(list_ei) the pen lift,
\* and no limit on the number of retraces
AngleOption(list_ei, r) ==
    /\ angles' = angle_costs(list_ei, visited, list_ws)
    /\ rindx' = <<r>>
    /\ IF r = Len(list_ei)
       THEN /\ wpc' = "pen_up_down"
            /\ UNCHANGED <<list_ws, visited>>
       ELSE /\ list_ws' = select_move_folded(list_ws, visited, list_ei[r + 1])
            /\ visited' = select_move_vis(visited, list_ei[r + 1])
            /\ wpc' = "while"
    /\ UNCHANGED <<graph_edges, exp_wt_start, lmbda, max_len, caller, myns,
                   walk, nmake>>

\* pen_angle_step() lifting the pen: get_moves() is empty (lines 95-97), or
\* the pen lift is drawn (lines 113-115)
AngleLift ==
    /\ wpc = "while"
    /\ make_continue(visited)
    /\ LET list_ei == moves_list(graph_edges, list_ws)
       IN IF list_ei = <<>>
          THEN /\ wpc' = "pen_up_down"
               /\ angles' = <<>>
               /\ rindx' = <<>>
               /\ UNCHANGED <<graph_edges, list_ws, visited, exp_wt_start,
                              lmbda, max_len, caller, myns, walk, nmake>>
          ELSE AngleOption(list_ei, Len(list_ei))

\* pen_angle_step() drawing a move on an unvisited edge
AngleNewMove ==
    /\ wpc = "while"
    /\ make_continue(visited)
    /\ LET list_ei == moves_list(graph_edges, list_ws)
       IN \E r \in 0..(Len(list_ei) - 1) :
            /\ ~is_visited(visited, list_ei[r + 1])
            /\ AngleOption(list_ei, r)

\* pen_angle_step() drawing a move on a visited edge
AngleRetrace ==
    /\ wpc = "while"
    /\ make_continue(visited)
    /\ LET list_ei == moves_list(graph_edges, list_ws)
       IN \E r \in 0..(Len(list_ei) - 1) :
            /\ is_visited(visited, list_ei[r + 1])
            /\ AngleOption(list_ei, r)

\* the end of make() and, in sample(), myns = len(walk)
MakeReturn ==
    /\ wpc = "while"
    /\ caller = "sample"
    /\ ~make_continue(visited)
    /\ walk' = WalkerS(list_ws)
    /\ myns' = <<Len(walk')>>
    /\ wpc' = "loop"
    /\ UNCHANGED <<graph_edges, visited, list_ws, exp_wt_start, lmbda, max_len,
                   caller, nmake>>
    /\ angles' = <<>>
    /\ rindx' = <<>>

\* sample() leaves its loop and returns walk
SampleReturn ==
    /\ wpc = "loop"
    /\ caller = "sample"
    /\ ~sample_again(myns, max_len)
    /\ wpc' = "returned"
    /\ UNCHANGED <<graph_edges, visited, list_ws, exp_wt_start, lmbda, max_len,
                   caller, myns, walk, nmake>>
    /\ angles' = <<>>
    /\ rindx' = <<>>

\* det_walk(), lines 50-51, and make() up to its while loop.  walk keeps the
\* walk the previous det_walk() returned, which its caller still holds.
DetWalk ==
    /\ wpc \in {"idle", "returned"}
    /\ exp_wt_start' = <<DetParam>>
    /\ lmbda' = <<DetParam>>
    /\ caller' = "det_walk"
    /\ visited' = clear_visited(graph_edges)
    /\ list_ws' = add_singletons(graph_edges)
    /\ wpc' = IF make_continue(visited') THEN "pen_up_down" ELSE "while"
    /\ nmake' = 1
    /\ myns' = <<>>
    /\ UNCHANGED <<graph_edges, max_len, walk>>
    /\ angles' = <<>>
    /\ rindx' = <<>>

\* the end of make() and of det_walk(), lines 67-68 and 52-53
DetWalkReturn ==
    /\ wpc = "while"
    /\ caller = "det_walk"
    /\ ~make_continue(visited)
    /\ walk' = WalkerS(list_ws)
    /\ wpc' = "returned"
    /\ UNCHANGED <<graph_edges, visited, list_ws, exp_wt_start, lmbda, max_len,
                   caller, myns, nmake>>
    /\ angles' = <<>>
    /\ rindx' = <<>>

----------------------------------------------------------------------------
(* Real numbers: exact rationals <<n, d>> in lowest terms, d > 0 *)

RECURSIVE GCD(_, _)
GCD(a, b) == IF b = 0 THEN a ELSE GCD(b, a % b)

Abs(a) == IF a < 0 THEN -a ELSE a

Q(n, d) ==
    LET g == GCD(Abs(n), Abs(d))
        sgn == IF d < 0 THEN -1 ELSE 1
    IN <<sgn * (n \div g), sgn * (d \div g)>>

QInt(n) == <<n, 1>>
LCM(a, b) == (a \div GCD(a, b)) * b
QAdd(a, b) ==
    LET l == LCM(a[2], b[2])
    IN Q(a[1] * (l \div a[2]) + b[1] * (l \div b[2]), l)
QNeg(a) == <<-a[1], a[2]>>
QSub(a, b) == QAdd(a, QNeg(b))
QMul(a, b) ==
    LET g1 == GCD(Abs(a[1]), b[2])
        g2 == GCD(Abs(b[1]), a[2])
    IN Q((a[1] \div g1) * (b[1] \div g2), (a[2] \div g2) * (b[2] \div g1))
QDiv(a, b) == QMul(a, Q(b[2], b[1]))
QLt(a, b) ==
    LET l == LCM(a[2], b[2])
    IN a[1] * (l \div a[2]) < b[1] * (l \div b[2])
QLe(a, b) == ~QLt(b, a)
QMin(a, b) == IF QLt(b, a) THEN b ELSE a
QMax(a, b) == IF QLt(a, b) THEN b ELSE a
QAbs(a) == <<Abs(a[1]), a[2]>>
\* torch.floor and torch.ceil
QFloor(a) == a[1] \div a[2]
QCeil(a) == -((-a[1]) \div a[2])

RECURSIVE QSum(_)
QSum(s) == IF s = <<>> THEN QInt(0) ELSE QAdd(Head(s), QSum(Tail(s)))

\* floor of the square root of a natural number
ISqrt(n) == CHOOSE r \in 0..n : r * r <= n /\ n < (r + 1) * (r + 1)

\* square root, exact when it is rational with a small denominator and
\* rounded down to a multiple of 1/(16 d) otherwise (the float rounds too)
QSqrt(a) == Q(ISqrt(a[1] * a[2] * 256), a[2] * 16)

\* sumink < 2.22e-6 (add_stroke, line 150), that is n/d < 111/50000000,
\* computed without the product n * 50000000
below_eps(a) ==
    \/ a[1] <= 0
    \/ LET m == 111 * a[2]
       IN \/ m \div a[1] > 50000000
          \/ (m \div a[1] = 50000000 /\ m % a[1] # 0)

\* the tolerance 1e-4 of add_stroke's assertion
InkTol == <<1, 10000>>

----------------------------------------------------------------------------
(* rendering.py *)

\* the pixels of an image of size imsize = <<H, W>>
Pixels(imsize) == (0..(imsize[1] - 1)) \X (0..(imsize[2] - 1))

\* torch.zeros(ps.imsize)
ZeroImage(imsize) == [p \in Pixels(imsize) |-> QInt(0)]

\* a check_bounds that lets the ceiling reach the dimension
check_bounds_gt(myt, imsize) ==
    LET x_out == (QFloor(myt[1]) < 0) \/ (QCeil(myt[1]) > imsize[1])
        y_out == (QFloor(myt[2]) < 0) \/ (QCeil(myt[2]) > imsize[2])
    IN x_out \/ y_out

\* check_bounds, for one point myt = <<x, y>>
check_bounds(myt, imsize) ==
    LET x_out == (QFloor(myt[1]) < 0) \/ (QCeil(myt[1]) >= imsize[1])
        y_out == (QFloor(myt[2]) < 0) \/ (QCeil(myt[2]) >= imsize[2])
    IN x_out \/ y_out

\* space_motor_to_img, for one point: (x, y) -> (-y, x)
space_motor_to_img(pt) == <<QNeg(pt[2]), pt[1]>>

\* the subsequence of s at the indices where keep holds
RECURSIVE SelectIdx(_, _, _)
SelectIdx(s, keep, i) ==
    IF i > Len(s) THEN <<>>
    ELSE (IF keep[i] THEN <<s[i]>> ELSE <<>>) \o SelectIdx(s, keep, i + 1)

\* seqadd(D, lind_x, lind_y, inkval): scatter-add of the in-bounds points
seqadd(D, lind_x, lind_y, inkval, imsize) ==
    LET out == [k \in 1..Len(lind_x) |->
                   check_bounds(<<lind_x[k], lind_y[k]>>, imsize)]
        kept == {k \in 1..Len(lind_x) : ~out[k]}
    IN IF kept = {} THEN D
       ELSE [p \in Pixels(imsize) |->
               LET here == [k \in 1..Len(lind_x) |->
                              /\ ~out[k]
                              /\ QFloor(lind_x[k]) = p[1]
                              /\ QFloor(lind_y[k]) = p[2]]
               IN QAdd(D[p], QSum(SelectIdx(inkval, here, 1)))]

\* torch.norm(stk[1:] - stk[:-1], dim=-1)
Dist(p, q) ==
    LET dx == QSub(p[1], q[1])
        dy == QSub(p[2], q[2])
    IN QSqrt(QAdd(QMul(dx, dx), QMul(dy, dy)))

\* add_stroke, lines 138-145: the ink of each in-bounds point before the
\* minimum-ink correction
natural_ink(stk, prm) ==
    IF Len(stk) = 1 THEN <<prm.ink_pp>>
    ELSE LET dist == [k \in 1..(Len(stk) - 1) |->
                         QMin(Dist(stk[k + 1], stk[k]), prm.ink_max_dist)]
             dist2 == <<dist[1]>> \o dist
         IN [k \in 1..Len(stk) |->
               QDiv(QMul(prm.ink_pp, dist2[k]), prm.ink_max_dist)]

\* add_stroke, lines 147-154: the minimum-ink correction.  In the elif
\* branch myink is multiplied by ink_pp / sumink in place (line 153) and
\* then once more (line 154).
min_ink(ink, prm) ==
    LET sumink == QSum(ink)
    IN IF below_eps(sumink)
       THEN [k \in 1..Len(ink) |-> QDiv(prm.ink_pp, QInt(Len(ink)))]
       ELSE IF QLt(sumink, prm.ink_pp)
            THEN LET r == QDiv(prm.ink_pp, sumink)
                     once == [k \in 1..Len(ink) |-> QMul(ink[k], r)]
                 IN [k \in 1..Len(ink) |-> QMul(once[k], r)]
            ELSE ink

\* check_bounds over a trajectory in motor space, after space_motor_to_img
stroke_out(stk, imsize) ==
    [k \in 1..Len(stk) |-> check_bounds(space_motor_to_img(stk[k]), imsize)]

\* an add_stroke that reports off-page ink only when no point is in bounds
any_out_all(out) == \A k \in 1..Len(out) : out[k]

\* out.any()
any_out(out) == \E k \in 1..Len(out) : out[k]

\* out.all()
all_out(out) == \A k \in 1..Len(out) : out[k]

\* add_stroke, lines 156-176: bilinear sharing of the ink and painting
paint(img, stk, ink, imsize) ==
    LET n == Len(stk)
        x == [k \in 1..n |-> stk[k][1]]
        y == [k \in 1..n |-> stk[k][2]]
        xfloor == [k \in 1..n |-> QInt(QFloor(x[k]))]
        yfloor == [k \in 1..n |-> QInt(QFloor(y[k]))]
        xceil == [k \in 1..n |-> QInt(QCeil(x[k]))]
        yceil == [k \in 1..n |-> QInt(QCeil(y[k]))]
        x_c_ratio == [k \in 1..n |-> QSub(x[k], xfloor[k])]
        y_c_ratio == [k \in 1..n |-> QSub(y[k], yfloor[k])]
        x_f_ratio == [k \in 1..n |-> QSub(QInt(1), x_c_ratio[k])]
        y_f_ratio == [k \in 1..n |-> QSub(QInt(1), y_c_ratio[k])]
        mi1 == [k \in 1..n |-> QMul(QMul(ink[k], x_f_ratio[k]), y_f_ratio[k])]
        mi2 == [k \in 1..n |-> QMul(QMul(ink[k], x_c_ratio[k]), y_f_ratio[k])]
        mi3 == [k \in 1..n |-> QMul(QMul(ink[k], x_f_ratio[k]), y_c_ratio[k])]
        mi4 == [k \in 1..n |-> QMul(QMul(ink[k], x_c_ratio[k]), y_c_ratio[k])]
        d1 == seqadd(img, xfloor, yfloor, mi1, imsize)
        d2 == seqadd(d1, xceil, yfloor, mi2, imsize)
        d3 == seqadd(d2, xfloor, yceil, mi3, imsize)
    IN seqadd(d3, xceil, yceil, mi4, imsize)

\* add_stroke, lines 128 and 136: the points of the trajectory that are in
\* bounds, in image space
in_bounds_points(stk0, imsize) ==
    SelectIdx([k \in 1..Len(stk0) |-> space_motor_to_img(stk0[k])],
              [k \in 1..Len(stk0) |-> ~stroke_out(stk0, imsize)[k]], 1)

\* an early return that hands back a blank image
early_return_blank(img, off) ==
    [pimg |-> [p \in DOMAIN img |-> QInt(0)], ink_off_page |-> off,
     myink |-> <<>>, failed |-> FALSE]

\* add_stroke, line 135: the return when every point is out of bounds
early_return(img, off) ==
    [pimg |-> img, ink_off_page |-> off, myink |-> <<>>, failed |-> FALSE]

\* add_stroke(pimg, stk, ps): the image, the flag, and the local myink
\* (<<>> when the function returns before computing it); failed is the
\* assertion of line 155
add_stroke(img, stk0, prm) ==
    LET imsize == prm.imsize
        out == stroke_out(stk0, imsize)
        off == any_out(out)
        stk == in_bounds_points(stk0, imsize)
    IN IF all_out(out)
       THEN early_return(img, off)
       ELSE LET ink == min_ink(natural_ink(stk, prm), prm)
            IN IF ~QLt(QSub(prm.ink_pp, InkTol), QSum(ink))
               THEN [pimg |-> img, ink_off_page |-> off, myink |-> ink,
                     failed |-> TRUE]
               ELSE [pimg |-> paint(img, stk, ink, imsize),
                     ink_off_page |-> off, myink |-> ink, failed |-> FALSE]

\* imfilter(A, H, mode='conv') with a 3x3 kernel H, indexed -1..1: the output
\* has the size of A, which counts as zero outside its borders
imfilter(A, H, imsize) ==
    [p \in Pixels(imsize) |->
        LET offs == <<<<-1,-1>>, <<-1,0>>, <<-1,1>>, <<0,-1>>, <<0,0>>, <<0,1>>,
                      <<1,-1>>, <<1,0>>, <<1,1>>>>
            term(o) == LET q == <<p[1] - o[1], p[2] - o[2]>>
                       IN IF q \in Pixels(imsize) THEN QMul(H[o], A[q])
                          ELSE QInt(0)
        IN QSum([k \in 1..9 |-> term(offs[k])])]

\* fspecial(fsize, sigma, 'gaussian'): a normalized bell-shaped kernel; the
\* model takes the 3x3 binomial kernel
fspecial_gaussian ==
    [o \in (-1..1) \X (-1..1) |->
        Q((2 - Abs(o[1])) * (2 - Abs(o[2])), 16)]

\* a brush scale that takes every mode other than "Hinton" for "Lake"
h_scale_lenient(prm) ==
    IF prm.broaden_mode = "Hinton"
    THEN <<"ok", QMul(prm.ink_b, QAdd(QInt(1), prm.ink_a))>>
    ELSE <<"ok", prm.ink_b>>

\* the brush scale of broaden_and_blur, lines 204-209 ("error": the raise)
h_scale(prm) ==
    IF prm.broaden_mode = "Lake" THEN <<"ok", prm.ink_b>>
    ELSE IF prm.broaden_mode = "Hinton"
         THEN <<"ok", QMul(prm.ink_b, QAdd(QInt(1), prm.ink_a))>>
         ELSE <<"error", QInt(0)>>

\* H_broaden of broaden_and_blur, lines 211-217
H_broaden(prm) ==
    LET a == prm.ink_a
        hs == h_scale(prm)[2]
    IN [o \in (-1..1) \X (-1..1) |->
          QMul(hs,
               IF o = <<0, 0>> THEN QSub(QInt(1), a)
               ELSE IF o[1] = 0 \/ o[2] = 0 THEN QDiv(a, QInt(6))
               ELSE QDiv(a, QInt(12)))]

\* pimg.clamp_(lo, hi); lo = <<>> is None
clamp(A, lo, hi) ==
    [p \in DOMAIN A |->
        LET v == QMin(A[p], hi) IN IF lo = <<>> THEN v ELSE QMax(v, lo[1])]

\* a blend that leaves the noiseless map as it is
noise_blend_none(img, eps) == img

\* render_image, lines 276-278: the probability of each pixel being on
noise_blend(img, eps) ==
    IF QLt(QInt(0), eps)
    THEN [p \in DOMAIN img |->
            QAdd(QMul(QSub(QInt(1), eps), img[p]),
                 QMul(eps, QSub(QInt(1), img[p])))]
    ELSE img

----------------------------------------------------------------------------
(* Inputs of the rendering pipeline *)

\* most strokes of a list given to render_image
MaxStrokes == 2
\* most points of a trajectory given to add_stroke directly
MaxPts == 3

\* Parameters: the default values, on a small image, with each broaden_mode
PsSet ==
    {[imsize |-> <<3, 2>>, ink_pp |-> QInt(2), ink_max_dist |-> QInt(2),
      ink_a |-> Q(1, 2), ink_b |-> QInt(6), ink_ncon |-> 2,
      broaden_mode |-> m] : m \in {"Lake", "Hinton", "Gauss"}}

\* points in motor space <<x, y>>; the point of the image is <<-y, x>>
PtA == <<QInt(0), QInt(0)>>       \* row 0, column 0
PtB == <<QInt(0), Q(-1, 2)>>      \* row 1/2, column 0
PtC == <<QInt(0), Q(-5, 2)>>      \* row 5/2 = H - 1/2, column 0
PtD == <<QInt(0), Q(1, 2)>>       \* row -1/2, column 0
PtE == <<QInt(0), QInt(-2)>>      \* row 2, column 0
PtF == <<Q(1, 2), QInt(0)>>       \* row 0, column 1/2

Points == {PtA, PtB, PtC, PtE, PtF}

\* the trajectories of 1..n points
SeqsUpTo(S, n) == UNION {[1..k -> S] : k \in 1..n}

\* the trajectories render_image is given
StrokeInputs == {<<PtA>>, <<PtA, PtB>>, <<PtC>>, <<PtB, PtD>>, <<PtA, PtE>>}

Epsilons == {QInt(0), Q(1, 4), QInt(1)}
Sigmas == {QInt(0), QInt(1)}

----------------------------------------------------------------------------
(* render_image and add_stroke as state machines *)

\* render_image, lines 260-266
RenderInit ==
    /\ ps \in PsSet
    /\ strokes \in SeqsUpTo(StrokeInputs, MaxStrokes)
    /\ epsilon \in Epsilons
    /\ blur_sigma \in Sigmas
    /\ pimg = ZeroImage(ps.imsize)
    /\ ink_off_page = FALSE
    /\ si = 0
    /\ myink = <<>>
    /\ fi = 0
    /\ brush_scale = <<>>
    /\ rpc = "draw"

\* render_image, lines 269-271: one iteration of the for loop
AddStroke ==
    /\ rpc = "draw"
    /\ si < Len(strokes)
    /\ LET r == add_stroke(pimg, strokes[si + 1], ps)
       IN IF r.failed
          THEN /\ rpc' = "error"
               /\ myink' = r.myink
               /\ UNCHANGED <<pimg, ink_off_page, si>>
          ELSE /\ pimg' = r.pimg
               /\ ink_off_page' = (ink_off_page \/ r.ink_off_page)
               /\ myink' = r.myink
               /\ si' = si + 1
               /\ rpc' = "draw"
    /\ UNCHANGED <<ps, strokes, epsilon, blur_sigma, fi, brush_scale>>

\* broaden_and_blur, lines 199-209: the brush scale, or the exception for an
\* unknown broaden_mode
broaden_enter ==
    /\ rpc' = IF h_scale(ps)[1] = "error" THEN "error" ELSE "broaden"
    /\ brush_scale' = IF h_scale(ps)[1] = "error" THEN <<>>
                     ELSE <<h_scale(ps)[2]>>
    /\ fi' = 0
    /\ UNCHANGED <<ps, strokes, epsilon, blur_sigma, pimg, ink_off_page, si,
                   myink>>

\* render_image, line 274: the call of broaden_and_blur
BroadenBegin ==
    /\ rpc = "draw"
    /\ si = Len(strokes)
    /\ broaden_enter

\* broaden_and_blur, lines 218-219: one iteration of the broadening loop
BroadenFilter ==
    /\ rpc = "broaden"
    /\ fi < ps.ink_ncon
    /\ pimg' = imfilter(pimg, H_broaden(ps), ps.imsize)
    /\ fi' = fi + 1
    /\ UNCHANGED <<ps, strokes, epsilon, blur_sigma, ink_off_page, si, myink,
                   brush_scale, rpc>>

\* broaden_and_blur, lines 221-225: the cap at 1 and the test of blur_sigma
BroadenClamp ==
    /\ rpc = "broaden"
    /\ fi = ps.ink_ncon
    /\ pimg' = clamp(pimg, <<>>, QInt(1))
    /\ rpc' = IF QLt(QInt(0), blur_sigma) THEN "blur" ELSE "clamp"
    /\ fi' = 0
    /\ UNCHANGED <<ps, strokes, epsilon, blur_sigma, ink_off_page, si, myink,
                   brush_scale>>

\* broaden_and_blur, lines 226-228: one of the two Gaussian filterings
Blur ==
    /\ rpc = "blur"
    /\ pimg' = imfilter(pimg, fspecial_gaussian, ps.imsize)
    /\ fi' = fi + 1
    /\ rpc' = IF fi = 0 THEN "blur" ELSE "clamp"
    /\ UNCHANGED <<ps, strokes, epsilon, blur_sigma, ink_off_page, si, myink,
                   brush_scale>>

\* broaden_and_blur, lines 230-233: the clamp to [0,1] and the return
FinalClamp ==
    /\ rpc = "clamp"
    /\ pimg' = clamp(pimg, <<QInt(0)>>, QInt(1))
    /\ rpc' = "noise"
    /\ fi' = 0
    /\ UNCHANGED <<ps, strokes, epsilon, blur_sigma, ink_off_page, si, myink,
                   brush_scale>>

\* render_image, lines 276-280: the noise blend and the return
NoiseBlend ==
    /\ rpc = "noise"
    /\ pimg' = noise_blend(pimg, epsilon)
    /\ rpc' = "done"
    /\ UNCHANGED <<ps, strokes, epsilon, blur_sigma, ink_off_page, si, myink,
                   fi, brush_scale>>

\* a direct call add_stroke(pimg, stk, ps): the image is blank or holds ink
StrokeInit ==
    /\ ps \in {q \in PsSet : q.broaden_mode = "Lake"}
    /\ \E stk \in SeqsUpTo(Points, MaxPts) : strokes = <<stk>>
    /\ epsilon = QInt(0)
    /\ blur_sigma = QInt(0)
    /\ pimg \in {ZeroImage(ps.imsize),
                 [p \in Pixels(ps.imsize) |-> Q(p[1] + 1, 2)]}
    /\ ink_off_page = FALSE
    /\ si = 0
    /\ myink = <<>>
    /\ fi = 0
    /\ brush_scale = <<>>
    /\ rpc = "call"

\* add_stroke(pimg, strokes[0], ps), from its call to its return
AddStrokeCall ==
    /\ rpc = "call"
    /\ LET r == add_stroke(pimg, strokes[1], ps)
       IN /\ pimg' = r.pimg
          /\ ink_off_page' = r.ink_off_page
          /\ myink' = r.myink
          /\ rpc' = IF r.failed THEN "error" ELSE "ret"
    /\ si' = 1
    /\ UNCHANGED <<ps, strokes, epsilon, blur_sigma, fi, brush_scale>>

\* most broadening passes (ps.ink_ncon) in a direct call of broaden_and_blur
MaxNcon == 2

\* the values of ps.broaden_mode: the two modes and two other strings
BroadenModes == {"Lake", "Hinton", "Gauss", "lake"}

\* Parameters for a direct call of broaden_and_blur
BroadenPs ==
    {[imsize |-> <<2, 2>>, ink_pp |-> QInt(2), ink_max_dist |-> QInt(2),
      ink_a |-> a, ink_b |-> b, ink_ncon |-> n, broaden_mode |-> m] :
        a \in {QInt(0), Q(1, 2)}, b \in {QInt(1), QInt(6)}, n \in 1..MaxNcon,
        m \in BroadenModes}

\* a direct call broaden_and_blur(pimg, blur_sigma, ps)
BroadenInit ==
    /\ ps \in BroadenPs
    /\ strokes = <<>>
    /\ epsilon = QInt(0)
    /\ blur_sigma \in Sigmas
    /\ pimg \in {ZeroImage(ps.imsize),
                 [p \in Pixels(ps.imsize) |-> IF p = <<0, 0>> THEN QInt(2)
                                              ELSE QInt(0)],
                 [p \in Pixels(ps.imsize) |-> Q(p[1] + p[2], 8)]}
    /\ ink_off_page = FALSE
    /\ si = 0
    /\ myink = <<>>
    /\ fi = 0
    /\ brush_scale = <<>>
    /\ rpc = "broaden_and_blur"

\* broaden_and_blur, lines 199-209, in a direct call
BroadenCall ==
    /\ rpc = "broaden_and_blur"
    /\ broaden_enter

(* objects/part.py: vanilla_to_motor and StrokeToken *)

\* F(v), with v evaluated once
Bind(v, F(_)) == CHOOSE x \in {F(y) : y \in {v}} : TRUE

\* the cubic B-spline basis at distance x from the centre of a basis function
bspline_basis(x) ==
    LET Basis(ax) ==
            IF QLt(ax, QInt(1))
            THEN QAdd(QSub(Q(2, 3), QMul(ax, ax)),
                      QMul(Q(1, 2), QMul(ax, QMul(ax, ax))))
            ELSE IF QLt(ax, QInt(2))
                 THEN LET Cube(u) == QMul(Q(1, 6), QMul(u, QMul(u, u)))
                      IN Bind(QSub(QInt(2), ax), Cube)
                 ELSE QInt(0)
    IN Bind(QAbs(x), Basis)

\* splines.get_stk_from_bspline(P, neval): the uniform cubic B-spline of the
\* control points P (a list of points), evaluated at neval parameters evenly
\* spaced from 2 to ncpt + 1, the basis of control point c centred at c + 1
\* and the weights normalized to sum to 1
get_stk_from_bspline(P, nev) ==
    LET ncpt == Len(P)
        s(t) == QAdd(QInt(2), Q((ncpt - 1) * (t - 1), nev - 1))
        w(st) == [c \in 1..ncpt |-> bspline_basis(QSub(st, QInt(c + 1)))]
        Weighted(wt) ==
            LET Normalized(tot) ==
                    <<QDiv(QSum([c \in 1..ncpt |-> QMul(wt[c], P[c][1])]), tot),
                      QDiv(QSum([c \in 1..ncpt |-> QMul(wt[c], P[c][2])]), tot)>>
            IN Bind(QSum(wt), Normalized)
        pt(t) == Bind(Bind(s(t), w), Weighted)
    IN [t \in 1..nev |-> pt(t)]

\* p - q and a * p for points
PtSub(p, q) == <<QSub(p[1], q[1]), QSub(p[2], q[2])>>
PtScale(a, p) == <<QMul(a, p[1]), QMul(a, p[2])>>

\* the control points shp[:,:,i] as a list of points
ShapeCol(shp, i) == [c \in 1..Len(shp) |-> <<shp[c][1][i], shp[c][2][i]>>]

\* vanilla_to_motor, lines 317-324: the body of the loop for sub-stroke i
sub_stroke(shp, invs, previous_pos, i, nev) ==
    LET Scaled(col) == [c \in 1..Len(col) |-> PtScale(invs[i], col[c])]
        Moved(shapes_scaled) ==
            LET Shifted(traj) ==
                    LET Result(offset) ==
                            [motor |-> [t \in 1..nev |-> PtSub(traj[t], offset)],
                             spline |-> [c \in 1..Len(shapes_scaled) |->
                                            PtSub(shapes_scaled[c], offset)]]
                    IN Bind(PtSub(traj[1], previous_pos), Result)
            IN Bind(get_stk_from_bspline(shapes_scaled, nev), Shifted)
    IN Bind(Bind(ShapeCol(shp, i), Scaled), Moved)

\* a loop that never updates previous_pos
RECURSIVE motor_loop_stale(_, _, _, _, _, _)
motor_loop_stale(shp, invs, previous_pos, i, nsub, nev) ==
    IF i > nsub THEN <<>>
    ELSE LET Rest(r) == <<r>> \o motor_loop_stale(shp, invs, previous_pos,
                                                  i + 1, nsub, nev)
         IN Bind(sub_stroke(shp, invs, previous_pos, i, nev), Rest)

\* vanilla_to_motor, lines 315-326: sub-strokes i..nsub, from previous_pos
RECURSIVE motor_loop(_, _, _, _, _, _)
motor_loop(shp, invs, previous_pos, i, nsub, nev) ==
    IF i > nsub THEN <<>>
    ELSE LET Rest(r) == <<r>> \o motor_loop(shp, invs, r.motor[nev], i + 1,
                                            nsub, nev)
         IN Bind(sub_stroke(shp, invs, previous_pos, i, nev), Rest)

\* the assertions of vanilla_to_motor, lines 305-311; None is <<>>, shapes is
\* indexed [control point][coordinate][sub-stroke]
motor_asserts(shp, invs, first_pos) ==
    /\ shp # <<>> /\ invs # <<>> /\ first_pos # <<>>
    /\ \A c \in 1..Len(shp) : Len(shp[c]) = 2
    /\ Len(first_pos) = 2

\* a vanilla_to_motor whose motor_spline is indexed by sub-stroke first
vanilla_to_motor_packed(shp, invs, first_pos, nev) ==
    IF ~motor_asserts(shp, invs, first_pos)
    THEN [error |-> "AssertionError"]
    ELSE LET nsub == Len(shp[1][1])
             Result(subs) ==
                 [error |-> "none",
                  motor |-> [i \in 1..nsub |-> subs[i].motor],
                  motor_spline |-> [i \in 1..nsub |-> subs[i].spline]]
         IN Bind(motor_loop(shp, invs, first_pos, 1, nsub, nev), Result)

\* vanilla_to_motor(shapes, invscales, first_pos, neval): motor is indexed
\* [sub-stroke][evaluation][coordinate] and motor_spline like shapes
vanilla_to_motor(shp, invs, first_pos, nev) ==
    IF ~motor_asserts(shp, invs, first_pos)
    THEN [error |-> "AssertionError"]
    ELSE LET nsub == Len(shp[1][1])
             Result(subs) ==
                 [error |-> "none",
                  motor |-> [i \in 1..nsub |-> subs[i].motor],
                  motor_spline |->
                      [c \in 1..Len(shp) |->
                          [d \in 1..2 |->
                              [i \in 1..nsub |-> subs[i].spline[c][d]]]]]
         IN Bind(motor_loop(shp, invs, first_pos, 1, nsub, nev), Result)

----------------------------------------------------------------------------
(* Inputs of vanilla_to_motor and of StrokeToken *)

\* most sub-strokes of a stroke
MaxSub == 2
\* most evaluation points per sub-stroke in a direct call
MaxNeval == 3
\* the default of vanilla_to_motor's parameter neval
DefaultNeval == 200

CtrlPts == {<<QInt(0), QInt(0)>>, <<QInt(1), QInt(0)>>, <<QInt(1), QInt(2)>>}
InvScales == {Q(1, 2), QInt(2)}
Positions == {<<QInt(0), QInt(0)>>, <<QInt(1), QInt(-1)>>}

\* the (2, 2, nsub) tensors whose control points are in CtrlPts
ShapesOf(nsub) ==
    {[c \in 1..2 |-> [d \in 1..2 |-> [i \in 1..nsub |-> f[c][i][d]]]] :
        f \in [1..2 -> [1..nsub -> CtrlPts]]}

\* a call vanilla_to_motor(shapes, invscales, position, neval)
MotorInit ==
    /\ \E nsub \in 1..MaxSub :
          /\ shapes \in ShapesOf(nsub)
          /\ invscales \in [1..nsub -> InvScales]
    /\ position \in Positions
    /\ neval \in 2..MaxNeval
    /\ m_ret = [call |-> "none"]

VanillaToMotor ==
    /\ m_ret.call = "none"
    /\ m_ret' = [call |-> "vanilla_to_motor",
                 ret |-> vanilla_to_motor(shapes, invscales, position, neval)]
    /\ UNCHANGED <<shapes, invscales, position, neval>>

\* the numbers of control points and of sub-strokes of testV2M
TestCpt == 5
TestSub == 3

\* a (ncpt, 2, nsub) tensor of small integers, one for each k
ShapeFamily(ncpt, nsub, k) ==
    [c \in 1..ncpt |-> [d \in 1..2 |->
        [i \in 1..nsub |-> QInt((c * d + i + k) % 3)]]]

\* the sizes (ncpt, nsub, neval) of the calls: every small size with neval
\* given, and two sizes, one of them testV2M's, with neval left to its default
CallSizes ==
    ({2, 3, TestCpt} \X (1..MaxSub) \X (2..MaxNeval))
        \cup {<<2, 1, DefaultNeval>>, <<TestCpt, TestSub, DefaultNeval>>}

\* a call vanilla_to_motor(shapes, invscales, position) or
\* vanilla_to_motor(shapes, invscales, position, neval)
SizesInit ==
    /\ \E sz \in CallSizes :
          /\ \E k \in 0..1 : shapes = ShapeFamily(sz[1], sz[2], k)
          /\ \E v \in InvScales : invscales = [i \in 1..sz[2] |-> v]
          /\ neval = sz[3]
    /\ position \in Positions
    /\ m_ret = [call |-> "none"]

\* the shapes of the tokens: MaxSub sub-strokes with the same two control
\* points, the first at the origin
TokenShapes ==
    {sh \in ShapesOf(MaxSub) :
        \A i \in 1..MaxSub :
            /\ sh[1][1][i] = QInt(0) /\ sh[1][2][i] = QInt(0)
            /\ sh[2][1][i] = sh[2][1][1] /\ sh[2][2][i] = sh[2][2][1]}

\* StrokeToken.__init__(shapes, invscales, xlim, ylim)
TokenInit ==
    /\ shapes \in TokenShapes
    /\ \E v \in InvScales : invscales = [i \in 1..MaxSub |-> v]
    /\ position = <<>>
    /\ neval = DefaultNeval
    /\ m_ret = [call |-> "none"]

\* an assignment token.position = p
SetPosition ==
    /\ \E p \in Positions : position' = p
    /\ position' # position
    /\ UNCHANGED <<shapes, invscales, neval, m_ret>>

\* a motor property without its assertion
token_get_unchecked(sh, invs, pos, which) ==
    LET r == vanilla_to_motor(sh, invs, pos, DefaultNeval)
    IN IF r.error # "none" THEN [call |-> which, raised |-> "none", value |-> <<>>]
       ELSE [call |-> which, raised |-> "none",
             value |-> IF which = "motor" THEN r.motor ELSE r.motor_spline]

\* StrokeToken.motor and StrokeToken.motor_spline, lines 214-236
token_get(sh, invs, pos, which) ==
    IF pos = <<>>
    THEN [call |-> which, raised |-> "AssertionError", value |-> <<>>]
    ELSE LET r == vanilla_to_motor(sh, invs, pos, DefaultNeval)
         IN [call |-> which, raised |-> r.error,
             value |-> IF r.error # "none" THEN <<>>
                       ELSE IF which = "motor" THEN r.motor
                       ELSE r.motor_spline]

\* an access token.motor
GetMotor ==
    /\ m_ret' = token_get(shapes, invscales, position, "motor")
    /\ UNCHANGED <<shapes, invscales, position, neval>>

\* an access token.motor_spline
GetMotorSpline ==
    /\ m_ret' = token_get(shapes, invscales, position, "motor_spline")
    /\ UNCHANGED <<shapes, invscales, position, neval>>

----------------------------------------------------------------------------
(* A call of check_bounds *)

\* most rows and columns of the images check_bounds is called with
MaxDim == 3

\* the coordinates -1, -1/2, 0, ..., MaxDim + 1/2
HalfCoords == {Q(h, 2) : h \in (-2)..(2 * MaxDim + 1)}

\* a call check_bounds(myt, imsize) with one point
BoundsInit ==
    /\ b_myt \in HalfCoords \X HalfCoords
    /\ b_imsize \in (1..MaxDim) \X (1..MaxDim)
    /\ b_out = <<>>

CheckBounds ==
    /\ b_out = <<>>
    /\ b_out' = <<check_bounds(b_myt, b_imsize)>>
    /\ UNCHANGED <<b_myt, b_imsize>>

----------------------------------------------------------------------------
(* SpatialModel.__init__ *)

\* most training positions
MaxData == 3
\* largest stroke index of a training position
MaxLabel == 2
\* largest clump_id
MaxClump == 3

\* the positions of the training set
StartPts == {<<0, 0>>, <<1, 1>>}

\* the rows n of a list of length len with mask[n], in order
RECURSIVE MaskRows(_, _)
MaskRows(mask, len) ==
    IF len = 0 THEN <<>>
    ELSE IF mask[len] THEN Append(MaskRows(mask, len - 1), len)
         ELSE MaskRows(mask, len - 1)

\* SpatialHist(data_start[mask], xlim, ylim, nbin_per_side, prior_count):
\* the histogram fit on the rows of data_start that mask selects
SpatialHist(data, mask) ==
    LET rows == MaskRows(mask, Len(data))
    IN [rows |-> rows, data |-> [k \in 1..Len(rows) |-> data[rows[k]]]]

\* the histograms of the for loop, lines 36-40, for i = from, ..., to - 1
RECURSIVE specific_models(_, _, _, _)
specific_models(data, ids, from, to) ==
    IF from >= to THEN <<>>
    ELSE <<SpatialHist(data, [n \in 1..Len(ids) |-> ids[n] = from])>>
         \o specific_models(data, ids, from + 1, to)

\* the histogram of lines 43-47, pooling the labels >= clump
pooled_model(data, ids, clump) ==
    SpatialHist(data, [n \in 1..Len(ids) |-> ids[n] >= clump])

\* a call SpatialModel(data_start, data_id, clump_id, ...)
SpatialInit ==
    /\ \E n \in 0..MaxData : data_start \in [1..n -> StartPts]
    /\ \E n \in 0..MaxData : data_id \in [1..n -> 0..MaxLabel]
    /\ clump_id \in 1..MaxClump
    /\ list_SH = <<>>
    /\ sm_pc = "call"

\* SpatialModel.__init__, lines 32-47, for lists of equal length
Construct ==
    /\ sm_pc = "call"
    /\ Len(data_id) = Len(data_start)
    /\ list_SH' = specific_models(data_start, data_id, 0, clump_id - 1)
                  \o <<pooled_model(data_start, data_id, clump_id)>>
    /\ sm_pc' = "constructed"
    /\ UNCHANGED <<data_start, data_id, clump_id>>

\* SpatialModel.__init__, line 32: the assertion fails
ConstructFails ==
    /\ sm_pc = "call"
    /\ Len(data_id) # Len(data_start)
    /\ sm_pc' = "AssertionError"
    /\ UNCHANGED <<data_start, data_id, clump_id, list_SH>>

----------------------------------------------------------------------------
(* CPD/cpd_scale.py: the scale model *)

\* longest vector of sub-stroke ids
MaxIds == 2
\* most rows of lib.scale['theta']
MaxTheta == 2

\* the number of entries of a tensor of shape sh
RECURSIVE Numel(_)
Numel(sh) == IF sh = <<>> THEN 1 ELSE Head(sh) * Numel(Tail(sh))

\* __get_dist(theta, subid), lines 18-26: the Gamma distribution, with one
\* component per id, or the error raised on the way
get_dist(theta_shape, sid) ==
    IF Len(theta_shape) # 2
    THEN [raised |-> "AssertionError", by |-> "none", gamma |-> FALSE,
          shape |-> <<>>]
    ELSE IF \/ \E k \in 1..Len(sid.ids) : sid.ids[k] >= theta_shape[1]
            \/ theta_shape[2] < 2
         THEN [raised |-> "IndexError", by |-> "none", gamma |-> FALSE,
               shape |-> <<>>]
         ELSE [raised |-> "none", by |-> "Gamma", gamma |-> TRUE,
               shape |-> sid.shape]

\* CPDUnif.sample_invscale_type and CPDUnif.score_invscale_type: one value
\* per id, with no Gamma distribution
CPDUnif(sid) ==
    [raised |-> "none", by |-> "CPDUnif", gamma |-> FALSE, shape |-> sid.shape]

\* the error of a failed assertion
cpd_assert_fails ==
    [raised |-> "AssertionError", by |-> "none", gamma |-> FALSE,
     shape |-> <<>>]

\* a sampler that consults lib.isunif before it checks subid
sample_unif_first(l, sid) ==
    IF l.isunif THEN CPDUnif(sid)
    ELSE IF Len(sid.shape) # 1 THEN cpd_assert_fails
    ELSE get_dist(l.theta, sid)

\* sample_invscale_type(lib, subid), lines 28-48
sample_invscale_type(l, sid) ==
    IF Len(sid.shape) # 1 THEN cpd_assert_fails
    ELSE IF l.isunif THEN CPDUnif(sid)
    ELSE get_dist(l.theta, sid)

\* score_invscale_type(lib, invscales, subid), lines 50-72
score_invscale_type(l, inv_shape, sid) ==
    IF Len(inv_shape) # 1 THEN cpd_assert_fails
    ELSE IF Len(sid.shape) # 1 THEN cpd_assert_fails
    ELSE IF inv_shape[1] # sid.shape[1] THEN cpd_assert_fails
    ELSE IF l.isunif THEN CPDUnif(sid)
    ELSE get_dist(l.theta, sid)

\* the shapes (), (k,) and (k, 1) for k up to n
ShapesUpTo(n) == {<<>>} \cup {<<k>> : k \in 0..n} \cup {<<k, 1>> : k \in 0..n}

\* the tensors subid: a shape and as many ids, each a row of theta or one past
SubIds ==
    {[shape |-> sh, ids |-> f] :
        sh \in ShapesUpTo(MaxIds), f \in UNION {[1..k -> 0..MaxTheta] :
                                                  k \in 0..MaxIds}}

\* a call of sample_invscale_type or score_invscale_type
CpdInit ==
    /\ lib \in [isunif : BOOLEAN,
                theta : {<<n, 2>> : n \in 1..MaxTheta} \cup {<<MaxTheta>>}]
    /\ subid \in {s \in SubIds : Len(s.ids) = Numel(s.shape)}
    /\ cpd_invscales \in ShapesUpTo(MaxIds)
    /\ cpd_ret = [call |-> "none"]

SampleInvscaleType ==
    /\ cpd_ret.call = "none"
    /\ cpd_ret' = [call |-> "sample_invscale_type",
                   ret |-> sample_invscale_type(lib, subid)]
    /\ UNCHANGED <<lib, subid, cpd_invscales>>

ScoreInvscaleType ==
    /\ cpd_ret.call = "none"
    /\ cpd_ret' = [call |-> "score_invscale_type",
                   ret |-> score_invscale_type(lib, cpd_invscales, subid)]
    /\ UNCHANGED <<lib, subid, cpd_invscales>>

----------------------------------------------------------------------------
(* PartType.train/eval and PartToken.train/eval (part.py) *)

\* a tensor, as far as requires_grad_ is concerned
Tensor(rg) == [requires_grad |-> rg]
Tensors == {Tensor(rg) : rg \in BOOLEAN}

\* Python's None, which has no attribute requires_grad_
None == [none |-> TRUE]
IsNone(v) == "requires_grad" \notin DOMAIN v

\* StrokeType(nsub, ids, shapes, invscales)
StrokeTypes ==
    {[class |-> "StrokeType", shapes |-> sh, invscales |-> iv] :
        sh \in Tensors, iv \in Tensors}

\* StrokeToken(shapes, invscales, xlim, ylim): position is None
StrokeTokens ==
    {[class |-> "StrokeToken", shapes |-> sh, invscales |-> iv,
      position |-> None] : sh \in Tensors, iv \in Tensors}

\* StrokeType.parameters(): the attributes the list refers to, in order
StrokeType_parameters(p) == <<"shapes", "invscales">>

\* a StrokeToken.parameters() that leaves out a position of None
StrokeToken_parameters_set(p) ==
    IF IsNone(p.position) THEN <<"shapes", "invscales">>
    ELSE <<"shapes", "invscales", "position">>

\* StrokeToken.parameters(): the attributes the list refers to, in order
StrokeToken_parameters(p) == <<"shapes", "invscales", "position">>

\* self.parameters() of the part's class
parameters(p) ==
    IF p.class = "StrokeType" THEN StrokeType_parameters(p)
    ELSE StrokeToken_parameters(p)

\* param.requires_grad_(flag) on a tensor
requires_grad_(t, flag) == [t EXCEPT !.requires_grad = flag]

\* the part the running call was made on
part == parts[self]

PartInit ==
    /\ parts \in [type : StrokeTypes, token : StrokeTokens]
    /\ self = "none"
    /\ grad = <<>>
    /\ param_i = 0
    /\ tpc = "idle"

\* token.position = <a tensor>, between two toggles
SetTokenPosition ==
    /\ tpc \in {"idle", "returned", "raised"}
    /\ \E t \in Tensors : parts' = [parts EXCEPT !.token.position = t]
    /\ self' = "none"
    /\ grad' = <<>>
    /\ param_i' = 0
    /\ tpc' = "idle"

\* train() on one of the parts, up to its loop
Train ==
    /\ tpc \in {"idle", "returned", "raised"}
    /\ self' \in {"type", "token"}
    /\ grad' = <<TRUE>>
    /\ param_i' = 0
    /\ tpc' = "loop"
    /\ UNCHANGED parts

\* eval() on one of the parts, up to its loop
Eval ==
    /\ tpc \in {"idle", "returned", "raised"}
    /\ self' \in {"type", "token"}
    /\ grad' = <<FALSE>>
    /\ param_i' = 0
    /\ tpc' = "loop"
    /\ UNCHANGED parts

\* one iteration of the loop of train() or eval(): requires_grad_ on the
\* next entry, an AttributeError when the entry is None
ToggleParam ==
    /\ tpc = "loop"
    /\ param_i < Len(parameters(part))
    /\ LET param == parameters(part)[param_i + 1]
       IN IF IsNone(part[param])
          THEN /\ tpc' = "raised"
               /\ UNCHANGED <<parts, param_i>>
          ELSE /\ parts' = [parts EXCEPT ![self][param] =
                                requires_grad_(@, grad[1])]
               /\ param_i' = param_i + 1
               /\ tpc' = "loop"
    /\ UNCHANGED <<self, grad>>

\* the loop is over: train() or eval() returns
ToggleReturn ==
    /\ tpc = "loop"
    /\ param_i = Len(parameters(part))
    /\ tpc' = "returned"
    /\ UNCHANGED <<parts, self, grad, param_i>>

----------------------------------------------------------------------------
(* Specifications *)

\* the variables of the components a specification leaves unused
notWalk == <<renderVars, boundsVars, motorVars, spatialVars, cpdVars,
    partVars>>
notRender == <<walkVars, boundsVars, motorVars, spatialVars, cpdVars,
    partVars>>
notBounds == <<walkVars, renderVars, motorVars, spatialVars, cpdVars,
    partVars>>
notMotor == <<walkVars, renderVars, boundsVars, spatialVars, cpdVars,
    partVars>>
notSpatial == <<walkVars, renderVars, boundsVars, motorVars, cpdVars,
    partVars>>
notCpd == <<walkVars, renderVars, boundsVars, motorVars, spatialVars,
    partVars>>
notPart == <<walkVars, renderVars, boundsVars, motorVars, spatialVars,
    cpdVars>>

\* no part is toggled
PartIdle ==
    /\ parts = <<>>
    /\ self = "none"
    /\ grad = <<>>
    /\ param_i = 0
    /\ tpc = "unused"

\* the scale model is not called
CpdIdle ==
    /\ lib = [isunif |-> FALSE, theta |-> <<1, 2>>]
    /\ subid = [shape |-> <<0>>, ids |-> <<>>]
    /\ cpd_invscales = <<0>>
    /\ cpd_ret = [call |-> "unused"]

\* no SpatialModel is constructed
SpatialIdle ==
    /\ data_start = <<>>
    /\ data_id = <<>>
    /\ clump_id = 1
    /\ list_SH = <<>>
    /\ sm_pc = "unused"

\* vanilla_to_motor is not called
MotorIdle ==
    /\ shapes = <<>>
    /\ invscales = <<>>
    /\ position = <<>>
    /\ neval = 0
    /\ m_ret = [call |-> "unused"]

\* check_bounds is not called
BoundsIdle ==
    /\ b_myt = <<QInt(0), QInt(0)>>
    /\ b_imsize = <<1, 1>>
    /\ b_out = <<>>

\* the walker is not used
WalkIdle ==
    /\ graph_edges = {}
    /\ visited = clear_visited({})
    /\ list_ws = <<>>
    /\ exp_wt_start = <<>>
    /\ lmbda = <<>>
    /\ max_len = 1
    /\ wpc = "unused"
    /\ caller = "none"
    /\ myns = <<>>
    /\ walk = <<>>
    /\ nmake = 0
    /\ angles = <<>>
    /\ rindx = <<>>

\* the renderer is not used
RenderIdle ==
    /\ ps = [imsize |-> <<1, 1>>]
    /\ strokes = <<>>
    /\ epsilon = QInt(0)
    /\ blur_sigma = QInt(0)
    /\ pimg = ZeroImage(<<1, 1>>)
    /\ ink_off_page = FALSE
    /\ si = 0
    /\ myink = <<>>
    /\ fi = 0
    /\ brush_scale = <<>>
    /\ rpc = "unused"

InitWalk ==
    /\ WalkInit
    /\ RenderIdle
    /\ BoundsIdle
    /\ MotorIdle
    /\ SpatialIdle
    /\ CpdIdle
    /\ PartIdle

NextWalk ==
    \/ Sample /\ UNCHANGED notWalk
    \/ MakeBegin /\ UNCHANGED notWalk
    \/ PenUpDown /\ UNCHANGED notWalk
    \/ PenSimpleStep /\ UNCHANGED notWalk
    \/ PenAngleStep /\ UNCHANGED notWalk
    \/ MakeReturn /\ UNCHANGED notWalk
    \/ SampleReturn /\ UNCHANGED notWalk

SpecWalk == InitWalk /\ [][NextWalk]_vars

NextDet ==
    \/ DetWalk /\ UNCHANGED notWalk
    \/ PenUpDown /\ UNCHANGED notWalk
    \/ PenSimpleStep /\ UNCHANGED notWalk
    \/ PenAngleStep /\ UNCHANGED notWalk
    \/ DetWalkReturn /\ UNCHANGED notWalk

SpecDet == InitWalk /\ [][NextDet]_vars

\* sample() with walks of any length
NextLong ==
    \/ Sample /\ UNCHANGED notWalk
    \/ MakeBegin /\ UNCHANGED notWalk
    \/ PenUpDown /\ UNCHANGED notWalk
    \/ PenSimpleStep /\ UNCHANGED notWalk
    \/ AngleLift /\ UNCHANGED notWalk
    \/ AngleNewMove /\ UNCHANGED notWalk
    \/ AngleRetrace /\ UNCHANGED notWalk
    \/ MakeReturn /\ UNCHANGED notWalk
    \/ SampleReturn /\ UNCHANGED notWalk

\* a running make() takes its next step (the interpreter does not stop)
MakeProgress ==
    /\ WF_vars(PenUpDown /\ UNCHANGED notWalk)
    /\ WF_vars(PenSimpleStep /\ UNCHANGED notWalk)
    /\ WF_vars((AngleLift \/ AngleNewMove \/ AngleRetrace)
                    /\ UNCHANGED notWalk)
    /\ WF_vars(MakeReturn /\ UNCHANGED notWalk)

\* the draws of _action_via_angle are fair: the pen lift and the new moves,
\* whose probabilities are positive for the lambdas of sample(), are drawn
\* eventually when offered again and again
FairDraws ==
    /\ SF_vars(AngleLift /\ UNCHANGED notWalk)
    /\ SF_vars(AngleNewMove /\ UNCHANGED notWalk)

\* the interpreter runs on, the draws are arbitrary
SpecLong == InitWalk /\ [][NextLong]_vars /\ MakeProgress

\* the interpreter runs on, the draws are fair
SpecFair == InitWalk /\ [][NextLong]_vars /\ MakeProgress /\ FairDraws

InitRender ==
    /\ RenderInit
    /\ WalkIdle
    /\ BoundsIdle
    /\ MotorIdle
    /\ SpatialIdle
    /\ CpdIdle
    /\ PartIdle

NextRender ==
    \/ AddStroke /\ UNCHANGED notRender
    \/ BroadenBegin /\ UNCHANGED notRender
    \/ BroadenFilter /\ UNCHANGED notRender
    \/ BroadenClamp /\ UNCHANGED notRender
    \/ Blur /\ UNCHANGED notRender
    \/ FinalClamp /\ UNCHANGED notRender
    \/ NoiseBlend /\ UNCHANGED notRender

SpecRender == InitRender /\ [][NextRender]_vars

InitStroke ==
    /\ StrokeInit
    /\ WalkIdle
    /\ BoundsIdle
    /\ MotorIdle
    /\ SpatialIdle
    /\ CpdIdle
    /\ PartIdle

NextStroke == AddStrokeCall /\ UNCHANGED notRender

SpecStroke == InitStroke /\ [][NextStroke]_vars

InitBounds ==
    /\ BoundsInit
    /\ WalkIdle
    /\ RenderIdle
    /\ MotorIdle
    /\ SpatialIdle
    /\ CpdIdle
    /\ PartIdle

NextBounds == CheckBounds /\ UNCHANGED notBounds

SpecBounds == InitBounds /\ [][NextBounds]_vars

InitMotor ==
    /\ MotorInit
    /\ WalkIdle
    /\ RenderIdle
    /\ BoundsIdle
    /\ SpatialIdle
    /\ CpdIdle
    /\ PartIdle

NextMotor == VanillaToMotor /\ UNCHANGED notMotor

SpecMotor == InitMotor /\ [][NextMotor]_vars

InitSizes ==
    /\ SizesInit
    /\ WalkIdle
    /\ RenderIdle
    /\ BoundsIdle
    /\ SpatialIdle
    /\ CpdIdle
    /\ PartIdle

SpecSizes == InitSizes /\ [][NextMotor]_vars

InitToken ==
    /\ TokenInit
    /\ WalkIdle
    /\ RenderIdle
    /\ BoundsIdle
    /\ SpatialIdle
    /\ CpdIdle
    /\ PartIdle

NextToken ==
    \/ SetPosition /\ UNCHANGED notMotor
    \/ GetMotor /\ UNCHANGED notMotor
    \/ GetMotorSpline /\ UNCHANGED notMotor

SpecToken == InitToken /\ [][NextToken]_vars

InitBroaden ==
    /\ BroadenInit
    /\ WalkIdle
    /\ BoundsIdle
    /\ MotorIdle
    /\ SpatialIdle
    /\ CpdIdle
    /\ PartIdle

NextBroaden ==
    \/ BroadenCall /\ UNCHANGED notRender
    \/ BroadenFilter /\ UNCHANGED notRender
    \/ BroadenClamp /\ UNCHANGED notRender
    \/ Blur /\ UNCHANGED notRender
    \/ FinalClamp /\ UNCHANGED notRender

SpecBroaden == InitBroaden /\ [][NextBroaden]_vars

InitSpatial ==
    /\ SpatialInit
    /\ WalkIdle
    /\ RenderIdle
    /\ BoundsIdle
    /\ MotorIdle
    /\ CpdIdle
    /\ PartIdle

NextSpatial ==
    \/ Construct /\ UNCHANGED notSpatial
    \/ ConstructFails /\ UNCHANGED notSpatial

SpecSpatial == InitSpatial /\ [][NextSpatial]_vars

InitCpd ==
    /\ CpdInit
    /\ WalkIdle
    /\ RenderIdle
    /\ BoundsIdle
    /\ MotorIdle
    /\ SpatialIdle
    /\ PartIdle

NextCpd ==
    \/ SampleInvscaleType /\ UNCHANGED notCpd
    \/ ScoreInvscaleType /\ UNCHANGED notCpd

SpecCpd == InitCpd /\ [][NextCpd]_vars

InitPart ==
    /\ PartInit
    /\ WalkIdle
    /\ RenderIdle
    /\ BoundsIdle
    /\ MotorIdle
    /\ SpatialIdle
    /\ CpdIdle

NextPart ==
    \/ SetTokenPosition /\ UNCHANGED notPart
    \/ Train /\ UNCHANGED notPart
    \/ Eval /\ UNCHANGED notPart
    \/ ToggleParam /\ UNCHANGED notPart
    \/ ToggleReturn /\ UNCHANGED notPart

SpecPart == InitPart /\ [][NextPart]_vars

----------------------------------------------------------------------------
(* Properties of the random walker *)

\* make() has just returned: its result is in walk
MakeReturned == wpc \in {"loop", "returned"} /\ myns # <<>>

\* the edges a stroke traverses
StrokeEdges(stroke) ==
    {{stroke.list_ei[k][1], stroke.list_ei[k][2]} : k \in 1..Len(stroke.list_ei)}

\* the strokes of walk w that hold the first traversal of edge e
FirstStrokes(w, e) ==
    {i \in 1..Len(w) : /\ e \in StrokeEdges(w[i])
                       /\ \A j \in 1..(i-1) : e \notin StrokeEdges(w[j])}

\* C1: when make() returns, every edge of the graph is marked visited, and
\* the first traversal of every edge belongs to exactly one stroke of the
\* returned walk (no edge is left out of the walk).
C1_MakeVisitsEveryEdge ==
    MakeReturned =>
        \A e \in graph_edges :
            /\ visited[e]
            /\ Cardinality(FirstStrokes(walk, e)) = 1

\* C1 witness: make() has returned a walk of several strokes, one of which
\* retraces an edge, on a graph of at least two edges
C1_Witness ==
    /\ MakeReturned
    /\ Cardinality(graph_edges) >= 2
    /\ Len(walk) >= 2
    /\ TotalMoves(walk) > Cardinality(graph_edges)

\* C2: when sample() returns, the walk has at most ps.max_len strokes and is
\* the result of the last make(); a make() result longer than max_len is
\* never returned: make() is called again.
C2_SampleWithinMaxLen ==
    /\ (wpc = "returned" /\ caller = "sample") =>
          /\ Len(walk) <= max_len
          /\ walk = WalkerS(list_ws)
          /\ myns = <<Len(walk)>>
    /\ (wpc = "loop" /\ caller = "sample" /\ myns # <<>> /\ myns[1] > max_len) =>
          /\ ENABLED MakeBegin
          /\ ~ENABLED SampleReturn

\* C2 witness: sample() returns after at least one walk was rejected
C2_Witness ==
    /\ wpc = "returned"
    /\ caller = "sample"
    /\ nmake >= 2
    /\ Len(walk) >= 1

\* det_walk() returns
DetReturns == wpc = "while" /\ wpc' = "returned" /\ caller = "det_walk"

\* C14: det_walk() fixes exp_wt_start and lmbda to 1000 and calls make()
\* once, with no rejection loop, and two invocations on the same skeleton
\* graph return the same walk, whatever the random draws: the walk
\* det_walk() returns is the walk its previous invocation returned.
C14_DetWalkDeterministic ==
    [][DetReturns =>
        /\ exp_wt_start = <<DetParam>> /\ lmbda = <<DetParam>>
        /\ nmake = 1
        /\ walk # <<>> => walk' = walk]_vars

\* the part of C14 the code meets: the two parameters are 1000, make() is
\* called once, and its walk is returned whatever its length
C14_SingleMake ==
    [][DetReturns =>
        /\ exp_wt_start = <<DetParam>> /\ lmbda = <<DetParam>>
        /\ nmake = 1
        /\ walk' = WalkerS(list_ws)
        /\ myns' = <<>>]_vars

\* an angle step at a node with at least one candidate edge
AngleStepWithMoves ==
    /\ wpc = "while"
    /\ make_continue(visited)
    /\ get_moves(graph_edges, list_ws) # {}
    /\ wpc' # wpc \/ list_ws' # list_ws \/ angles' # angles \/ rindx' # rindx

C16_PenDownCandidates ==
    /\ wpc # "error"
    /\ wpc = "pen_up_down" =>
          /\ available_nodes(graph_edges, visited) # {}
          /\ pen_down_nodes(graph_edges, visited, exp_wt_start[1]) # {}
          /\ \A ni \in available_nodes(graph_edges, visited) :
                /\ unvisited_degree(graph_edges, visited, ni) > 0
                /\ \E e \in graph_edges : ni \in e /\ ~visited[e]
    /\ wpc = "pen_simple_step" =>
          /\ ~complete(visited)
          /\ get_new_moves(graph_edges, visited, list_ws) # {}
          /\ list_ws[Len(list_ws)].list_ei = <<>>

\* C16 witness: pen_up_down was invoked in the middle of a walk (an edge is
\* already visited) and has put the pen down for pen_simple_step
C16_Witness ==
    /\ wpc = "pen_simple_step"
    /\ \E e \in graph_edges : visited[e]
    /\ Len(list_ws) >= 2
    /\ get_new_moves(graph_edges, visited, list_ws) # {}

\* make() is running
MakeRunning == wpc \in {"pen_up_down", "pen_simple_step", "while"}

----------------------------------------------------------------------------
(* Properties of the rendering pipeline *)

\* the ink add_stroke computes before its minimum-ink correction, for the
\* trajectory of the direct call
CallNatural == natural_ink(in_bounds_points(strokes[1], ps.imsize), ps)

\* C4: for a trajectory with at least two in-bounds points, when the
\* natural total ink is below 2.22e-6 every point gets ink_pp / n, and when
\* it is positive but below ink_pp the ink is rescaled to total exactly
\* ink_pp.
C4_InkRenormalized ==
    (rpc = "ret" /\ Len(in_bounds_points(strokes[1], ps.imsize)) >= 2) =>
        LET sumink == QSum(CallNatural)
        IN /\ below_eps(sumink) =>
                \A k \in 1..Len(myink) :
                    myink[k] = QDiv(ps.ink_pp, QInt(Len(myink)))
           /\ (QLt(QInt(0), sumink) /\ QLt(sumink, ps.ink_pp)) =>
                QSum(myink) = ps.ink_pp

\* the part of C4 about a total below 2.22e-6, which the code meets
C4_UniformSplit ==
    (rpc = "ret" /\ Len(in_bounds_points(strokes[1], ps.imsize)) >= 2
       /\ below_eps(QSum(CallNatural))) =>
        /\ \A k \in 1..Len(myink) : myink[k] = QDiv(ps.ink_pp, QInt(Len(myink)))
        /\ QSum(myink) = ps.ink_pp

\* a point is inside the rectangle [0, H) x [0, W)
InsideHalfOpen(myt, imsize) ==
    /\ QLe(QInt(0), myt[1]) /\ QLt(myt[1], QInt(imsize[1]))
    /\ QLe(QInt(0), myt[2]) /\ QLt(myt[2], QInt(imsize[2]))

\* a point is inside the rectangle [0, H-1] x [0, W-1]
InsideClosed(myt, imsize) ==
    /\ QLe(QInt(0), myt[1]) /\ QLe(myt[1], QInt(imsize[1] - 1))
    /\ QLe(QInt(0), myt[2]) /\ QLe(myt[2], QInt(imsize[2] - 1))

\* C5 as stated: check_bounds is true when a floor is negative or a ceiling
\* is >= the dimension, and false for every point inside [0,H) x [0,W).
C5_Original ==
    b_out # <<>> =>
        /\ (\/ QFloor(b_myt[1]) < 0 \/ QCeil(b_myt[1]) >= b_imsize[1]
            \/ QFloor(b_myt[2]) < 0 \/ QCeil(b_myt[2]) >= b_imsize[2])
              => b_out[1]
        /\ InsideHalfOpen(b_myt, b_imsize) => ~b_out[1]

\* C5 amended: check_bounds is false exactly for the points of
\* [0, H-1] x [0, W-1]; a point whose coordinate lies strictly between the
\* last pixel index and the dimension (x = H - 1/2) is out of bounds.
C5_BoundsClosed ==
    b_out # <<>> =>
        /\ b_out[1] = ~InsideClosed(b_myt, b_imsize)
        /\ (\/ b_myt[1] = Q(2 * b_imsize[1] - 1, 2)
            \/ b_myt[2] = Q(2 * b_imsize[2] - 1, 2)) => b_out[1]

\* C5 witness: the point x = H - 1/2, y inside, was checked and is out
C5_Witness ==
    /\ b_out = <<TRUE>>
    /\ b_myt[1] = Q(2 * b_imsize[1] - 1, 2)
    /\ InsideClosed(<<QInt(0), b_myt[2]>>, b_imsize)
    /\ b_imsize[1] >= 2

\* the distance of a pixel value from 1/2
DistHalf(v) == QAbs(QSub(v, Q(1, 2)))

\* the step of render_image that blends the noise in
NoiseStep == rpc = "noise" /\ rpc' = "done"

\* C6 as stated: with epsilon = 0 the map is the output of broaden_and_blur;
\* with epsilon > 0 every pixel p becomes (1-epsilon) p + epsilon (1-p), which
\* is strictly closer to 1/2 than p.
C6_Original ==
    [][NoiseStep =>
        /\ epsilon = QInt(0) => pimg' = pimg
        /\ QLt(QInt(0), epsilon) =>
             \A p \in DOMAIN pimg :
                 /\ pimg'[p] = QAdd(pimg[p],
                                    QMul(epsilon, QSub(QInt(1), QMul(QInt(2), pimg[p]))))
                 /\ QLt(DistHalf(pimg'[p]), DistHalf(pimg[p]))]_vars

\* C6 amended: with epsilon = 0 the map is the output of broaden_and_blur;
\* with epsilon > 0 every pixel p becomes (1-epsilon) p + epsilon (1-p); this
\* is strictly closer to 1/2 than p when 0 < epsilon < 1 and p # 1/2, and a
\* pixel at exactly 1/2 stays at 1/2.
C6_NoiseBlend ==
    [][NoiseStep =>
        /\ epsilon = QInt(0) => pimg' = pimg
        /\ QLt(QInt(0), epsilon) =>
             \A p \in DOMAIN pimg :
                 /\ pimg'[p] = QAdd(pimg[p],
                                    QMul(epsilon, QSub(QInt(1), QMul(QInt(2), pimg[p]))))
                 /\ (QLt(epsilon, QInt(1)) /\ pimg[p] # Q(1, 2)) =>
                        QLt(DistHalf(pimg'[p]), DistHalf(pimg[p]))
                 /\ pimg[p] = Q(1, 2) => pimg'[p] = Q(1, 2)]_vars

\* C6 witness: a map blended with epsilon = 1/4 that holds a pixel at 1/2
\* (1/2 before the blend), a pixel at 3/4 (1 before it) and a third value
C6_Witness ==
    /\ rpc = "done"
    /\ epsilon = Q(1, 4)
    /\ \E p \in DOMAIN pimg : pimg[p] = Q(1, 2)
    /\ \E p \in DOMAIN pimg : pimg[p] = Q(3, 4)
    /\ \E p \in DOMAIN pimg : pimg[p] \notin {Q(1, 2), Q(3, 4)}

\* check_bounds reports some point of trajectory stk out of bounds, after
\* its conversion to image space
HasPointOut(stk) ==
    \E k \in 1..Len(stk) :
        check_bounds(space_motor_to_img(stk[k]), ps.imsize)

\* C8: the off-page flag of render_image is true if and only if one of the
\* strokes drawn so far has a point out of bounds; at the return that is
\* every stroke of the list, and a later in-bounds stroke does not reset it.
C8_OffPageFlag ==
    rpc \in {"draw", "broaden", "blur", "clamp", "noise", "done"} =>
        (ink_off_page <=> \E i \in 1..si : HasPointOut(strokes[i]))

\* C8 witness: render_image returned the flag set by its first stroke, the
\* second stroke being in bounds
C8_Witness ==
    /\ rpc = "done"
    /\ ink_off_page
    /\ Len(strokes) = 2
    /\ HasPointOut(strokes[1])
    /\ ~HasPointOut(strokes[2])

\* check_bounds reports every point of trajectory stk out of bounds, after
\* its conversion to image space
AllPointsOut(stk) ==
    \A k \in 1..Len(stk) :
        check_bounds(space_motor_to_img(stk[k]), ps.imsize)

\* C9: add_stroke with a trajectory whose points are all out of bounds
\* leaves the image as it was, reports ink off the page and raises nothing;
\* render_image goes on with the next stroke.
C9_AllOutUnchanged ==
    [][(rpc = "draw" /\ si < Len(strokes) /\ AllPointsOut(strokes[si + 1])) =>
        /\ pimg' = pimg
        /\ ink_off_page'
        /\ si' = si + 1
        /\ rpc' = "draw"]_vars

\* C9 witness: the second stroke was all out of bounds, drawn on an image
\* that holds the ink of the first
C9_Witness ==
    /\ rpc = "draw"
    /\ si = 2
    /\ AllPointsOut(strokes[2])
    /\ \E p \in DOMAIN pimg : pimg[p] # QInt(0)
    /\ ink_off_page

----------------------------------------------------------------------------
(* Properties of vanilla_to_motor and StrokeToken *)

\* C3: the motor trajectory is continuous: sub-stroke 1 starts at first_pos
\* and every sub-stroke i+1 starts at the last point of sub-stroke i.
C3_MotorContinuous ==
    m_ret.call = "vanilla_to_motor" =>
        /\ m_ret.ret.error = "none"
        /\ LET motor == m_ret.ret.motor
           IN /\ Len(motor) = Len(invscales)
              /\ motor[1][1] = position
              /\ \A i \in 1..(Len(motor) - 1) :
                    motor[i + 1][1] = motor[i][Len(motor[i])]

\* C3 witness: a trajectory of two sub-strokes of three points each whose
\* second sub-stroke has been moved away from where its spline lies
C3_Witness ==
    /\ m_ret.call = "vanilla_to_motor"
    /\ Len(m_ret.ret.motor) = 2
    /\ neval = 3
    /\ m_ret.ret.motor[1][1] # m_ret.ret.motor[1][3]
    /\ m_ret.ret.motor[2][1] # m_ret.ret.motor[2][3]
    /\ m_ret.ret.motor[2][1] # position

\* C10: a new StrokeToken has no position; token.motor and
\* token.motor_spline raise an assertion error while position is unset, and
\* once it is set they return the motor and the motor_spline of
\* vanilla_to_motor(shapes, invscales, position) for the current fields,
\* evaluated at the default neval: the motor starts at position and has
\* DefaultNeval points per sub-stroke, the spline is shaped like shapes.
C10_TokenAccess ==
    /\ position = <<>>
    /\ [][(m_ret' # m_ret) =>
            /\ position = <<>> => m_ret'.raised = "AssertionError"
            /\ position # <<>> =>
                 /\ m_ret'.raised = "none"
                 /\ m_ret'.call = "motor" =>
                      /\ m_ret'.value =
                            vanilla_to_motor(shapes, invscales, position,
                                             DefaultNeval).motor
                      /\ m_ret'.value[1][1] = position
                      /\ \A i \in 1..Len(invscales) :
                            Len(m_ret'.value[i]) = DefaultNeval
                 /\ m_ret'.call = "motor_spline" =>
                      /\ m_ret'.value =
                            vanilla_to_motor(shapes, invscales, position,
                                             DefaultNeval).motor_spline
                      /\ Len(m_ret'.value) = Len(shapes)
                      /\ \A c \in 1..Len(shapes) : \A d \in 1..2 :
                            Len(m_ret'.value[c][d]) = Len(invscales)]_vars

\* C10 witness: token.motor was read after position was assigned
C10_Witness ==
    /\ m_ret.call = "motor"
    /\ m_ret.raised = "none"
    /\ position # <<>>
    /\ m_ret.value[1][1] = position
    /\ m_ret.value[MaxSub][DefaultNeval] # position

----------------------------------------------------------------------------
(* Properties of SpatialModel *)

\* the histograms of list_SH fit on row n of the training set
UsedBy(n) == {k \in 1..Len(list_SH) : \E j \in 1..Len(list_SH[k].rows) :
                                          list_SH[k].rows[j] = n}

\* C7: the constructor builds one histogram for each stroke index
\* 0, ..., clump_id - 1, fit on the positions with that label, followed by
\* one pooled histogram for the labels >= clump_id: every training position
\* is used by exactly one histogram and none is dropped.
C7_LabelsPartitioned ==
    sm_pc = "constructed" =>
        \A n \in 1..Len(data_id) :
            /\ Cardinality(UsedBy(n)) = 1
            /\ \A k \in UsedBy(n) : \A j \in 1..Len(list_SH[k].rows) :
                  LET m == list_SH[k].rows[j]
                  IN IF data_id[n] < clump_id
                     THEN data_id[m] = data_id[n]
                     ELSE data_id[m] >= clump_id

\* what the constructor builds: histograms for the stroke indices
\* 0, ..., clump_id - 2 and the pooled one; the positions labelled
\* clump_id - 1 are used by none
C7_LabelDropped ==
    sm_pc = "constructed" =>
        /\ Len(list_SH) = clump_id
        /\ \A n \in 1..Len(data_id) :
              /\ data_id[n] = clump_id - 1 => UsedBy(n) = {}
              /\ data_id[n] < clump_id - 1 => UsedBy(n) = {data_id[n] + 1}
              /\ data_id[n] >= clump_id => UsedBy(n) = {clump_id}

----------------------------------------------------------------------------
(* Properties of broaden_and_blur *)

\* broaden_and_blur is entered: its first step
EnterStep ==
    /\ rpc = "broaden_and_blur" \/ (rpc = "draw" /\ si = Len(strokes))
    /\ rpc' # rpc

\* the two values the brush scale takes for the a and b of ps
ScaleLake == ps.ink_b
ScaleHinton == QMul(ps.ink_b, QAdd(QInt(1), ps.ink_a))

\* what C11 says of the error and of the value of h_scale
ScaleOrError ==
    /\ ps.broaden_mode \notin {"Lake", "Hinton"} =>
          /\ rpc' = "error"
          /\ pimg' = pimg
          /\ fi' = 0
    /\ ps.broaden_mode = "Lake" =>
          rpc' = "broaden" /\ brush_scale' = <<ScaleLake>>
    /\ ps.broaden_mode = "Hinton" =>
          rpc' = "broaden" /\ brush_scale' = <<ScaleHinton>>

\* C11 as stated: for a broaden_mode other than "Lake" or "Hinton"
\* broaden_and_blur raises before it filters the image; h_scale is b under
\* "Lake" and b*(1+a) under "Hinton", and the two values are different.
C11_Original ==
    [][EnterStep => (ScaleOrError /\ ScaleLake # ScaleHinton)]_vars

\* C11 amended: for a broaden_mode other than "Lake" or "Hinton"
\* broaden_and_blur raises before it filters the image; h_scale is b under
\* "Lake" and b*(1+a) under "Hinton"; the two values are different exactly
\* when a # 0 and b # 0, and coincide when a = 0.
C11_BrushScale ==
    [][EnterStep =>
        /\ ScaleOrError
        /\ (ScaleLake # ScaleHinton) <=>
              (ps.ink_a # QInt(0) /\ ps.ink_b # QInt(0))]_vars

\* C11 witness: a call with a = 0 under "Hinton" has filtered the image with
\* the brush scale b, the value of "Lake"
C11_Witness ==
    /\ rpc = "broaden"
    /\ fi >= 1
    /\ ps.broaden_mode = "Hinton"
    /\ ps.ink_a = QInt(0)
    /\ brush_scale = <<ps.ink_b>>

----------------------------------------------------------------------------
(* Properties of the scale model *)

\* an assertion of the call made fails: subid is not one-dimensional or, for
\* score_invscale_type, invscales is not or the two lengths differ
CpdPreconditionFails ==
    IF cpd_ret.call = "sample_invscale_type"
    THEN Len(subid.shape) # 1
    ELSE \/ Len(cpd_invscales) # 1
         \/ Len(subid.shape) # 1
         \/ cpd_invscales[1] # subid.shape[1]

\* C12: sample_invscale_type fails with an assertion when ids is not
\* one-dimensional, score_invscale_type when invscales or ids is not
\* one-dimensional or their lengths differ, whatever lib.isunif is; when the
\* checks pass and lib.isunif is set both return the CPDUnif result and
\* construct no Gamma distribution.
C12_ScalePreconditions ==
    cpd_ret.call \in {"sample_invscale_type", "score_invscale_type"} =>
        /\ CpdPreconditionFails =>
              /\ cpd_ret.ret.raised = "AssertionError"
              /\ cpd_ret.ret.by = "none"
              /\ ~cpd_ret.ret.gamma
        /\ (~CpdPreconditionFails /\ lib.isunif) =>
              /\ cpd_ret.ret.raised = "none"
              /\ cpd_ret.ret.by = "CPDUnif"
              /\ ~cpd_ret.ret.gamma
              /\ cpd_ret.ret.shape = subid.shape

\* C12 witness: with lib.isunif set, score_invscale_type failed its assertion
\* on two vectors of different lengths
C12_Witness ==
    /\ cpd_ret.call = "score_invscale_type"
    /\ lib.isunif
    /\ Len(cpd_invscales) = 1
    /\ Len(subid.shape) = 1
    /\ cpd_invscales[1] # subid.shape[1]
    /\ cpd_ret.ret.raised = "AssertionError"

----------------------------------------------------------------------------
(* Shapes of the result of vanilla_to_motor *)

\* the shape of a tensor given as nested lists of depth 3
Shape3(x) ==
    IF Len(x) = 0 THEN <<0>>
    ELSE IF Len(x[1]) = 0 THEN <<Len(x), 0>>
    ELSE <<Len(x), Len(x[1]), Len(x[1][1])>>

\* x is a rectangular tensor of depth 3, each entry a number <<n, d>>
Rectangular3(x) ==
    \A a \in 1..Len(x) :
        /\ Len(x[a]) = Len(x[1])
        /\ \A b \in 1..Len(x[a]) :
              /\ Len(x[a][b]) = Len(x[1][1])
              /\ \A c \in 1..Len(x[a][b]) : x[a][b][c] = Q(x[a][b][c][1],
                                                             x[a][b][c][2])

\* C13: for shapes of shape (ncpt, 2, nsub), invscales of shape (nsub,) and
\* first_pos of shape (2,), the motor trajectory has shape (nsub, neval, 2),
\* with neval = 200 when it is not given, and the motor spline has the shape
\* (ncpt, 2, nsub) of shapes.
C13_MotorShapes ==
    m_ret.call = "vanilla_to_motor" =>
        /\ m_ret.ret.error = "none"
        /\ Rectangular3(m_ret.ret.motor)
        /\ Shape3(m_ret.ret.motor) = <<Len(invscales), neval, 2>>
        /\ Rectangular3(m_ret.ret.motor_spline)
        /\ Shape3(m_ret.ret.motor_spline) = Shape3(shapes)
        /\ Shape3(shapes) = <<Len(shapes), 2, Len(invscales)>>

\* C13 witness: the call of testV2M, 5 control points and 3 sub-strokes with
\* neval not given, returned shapes (3, 200, 2) and (5, 2, 3)
C13_Witness ==
    /\ m_ret.call = "vanilla_to_motor"
    /\ neval = DefaultNeval
    /\ Shape3(shapes) = <<TestCpt, 2, TestSub>>
    /\ Shape3(m_ret.ret.motor) = <<3, 200, 2>>
    /\ Shape3(m_ret.ret.motor_spline) = <<5, 2, 3>>

----------------------------------------------------------------------------
(* Properties of the gradient toggles *)

\* every entry of parameters() is a tensor whose requires_grad is rg
AllRequireGrad(p, rg) ==
    \A k \in 1..Len(parameters(p)) :
        /\ ~IsNone(p[parameters(p)[k]])
        /\ p[parameters(p)[k]].requires_grad = rg

\* C18: train() and eval() switch the entries of parameters() in list order.
\* On a StrokeToken whose position is None the call raises, and at that
\* point shapes and invscales are already switched; a call that returns (on
\* a StrokeType, or a StrokeToken with position set) leaves every parameter
\* with requires_grad as asked, TRUE after train() and FALSE after eval().
C18_GradToggles ==
    /\ tpc = "loop" =>
          \A k \in 1..param_i :
              part[parameters(part)[k]].requires_grad = grad[1]
    /\ tpc = "raised" =>
          /\ part.class = "StrokeToken"
          /\ IsNone(part.position)
          /\ param_i = 2
          /\ part.shapes.requires_grad = grad[1]
          /\ part.invscales.requires_grad = grad[1]
    /\ tpc = "returned" =>
          /\ part.class = "StrokeToken" => ~IsNone(part.position)
          /\ AllRequireGrad(part, grad[1])
    /\ (tpc \in {"loop", "returned"} /\ part.class = "StrokeToken"
            /\ IsNone(part.position)) => param_i <= 2 /\ tpc = "loop"

\* C18 witness: eval() on a StrokeToken without position has raised after
\* switching off shapes and invscales, while the parameters of the
\* StrokeType require gradients
C18_Witness ==
    /\ tpc = "raised"
    /\ parts.type.shapes.requires_grad
    /\ parts.type.invscales.requires_grad
    /\ grad = <<FALSE>>
    /\ part.class = "StrokeToken"
    /\ IsNone(part.position)
    /\ ~part.shapes.requires_grad
    /\ ~part.invscales.requires_grad

====
